---- MODULE Spec2Model ----
(***************************************************************************)
(* A model of the Direct3D 12 demo applications of this repository:        *)
(*   CrateApp  (src/unnamed/part_000, lines 1-1176)                        *)
(*   BlendApp  (src/unnamed/part_000, lines 1179-2752)                     *)
(*   BoxApp    (src/Chapter 6 Drawing in Direct3D/Box/BoxApp.cpp, the box  *)
(*              and the pyramid sharing one vertex/index buffer)           *)
(*   BoxApp2   (src/unnamed/part_002, the single box with an object and a  *)
(*              global constant buffer)                                    *)
(* The CPU thread (message pump, Initialize, Update, Draw) and the GPU     *)
(* (the consumer of the command queue) are the two processes.              *)
(***************************************************************************)
EXTENDS Integers, Sequences, FiniteSets, TLC

(***************************************************************************)
(* Program constants.                                                      *)
(***************************************************************************)
gNumFrameResources == 3
SwapChainBufferCount == 2
AnimTexturesCount == 60
BoltAnimSrvBase == 3
TuPeriod == 10
TvPeriod == 50
NullFR == -1
\* Angles are counted in thousandths of a mouse pixel's quarter degree
\* (pi radians = 720000), radii in units of 0.005.
AnglePerPixel == 1000
PhiMin == 22918
PhiMax == 697082

(***************************************************************************)
(* Bounds of the model.                                                    *)
(***************************************************************************)
MaxFence == 5
MaxEvents == 1
MaxBlendEvents == 2
MaxMouseEvents == 2
MaxTime == 1
MaxSize == 2
MaxDelta == 1
MaxMouse == 3000

Apps == {"CrateApp", "BlendApp", "BoxApp", "BoxApp2"}
FrameResourceApps == {"CrateApp", "BlendApp"}
BoxApps == {"BoxApp", "BoxApp2"}

\* The number of key and resize messages a run handles: BlendApp, whose render
\* mode and layer order are switched by keys, gets more of them.
EventBudget(a) == IF a = "BlendApp" THEN MaxBlendEvents ELSE MaxEvents

FRs == 0 .. (gNumFrameResources - 1)
Sizes == 1 .. MaxSize
DeltaTimes == 0 .. MaxDelta
MouseCoords == {0, 100, MaxMouse}
MousePositions == [x : MouseCoords, y : MouseCoords]
MouseButtons == {"none", "MK_LBUTTON", "MK_RBUTTON", "MK_LBUTTON|MK_RBUTTON"}

VARIABLES
    app,                      \* which demo this run is
    pc,                       \* position of the CPU thread
    flushFrom,                \* the caller of the FlushCommandQueue in progress
    numEvents,                \* window messages handled so far
    mTimer,                   \* GameTimer: TotalTime and DeltaTime of the current frame
    \* ---- CPU/GPU synchronisation
    mCurrFrameResourceIndex,
    mCurrFrameResource,       \* NullFR or an index into mFrameResources
    frFence,                  \* FrameResource::Fence of each frame resource
    mCurrentFence,
    fenceCompleted,           \* mFence->GetCompletedValue(), advanced by the GPU
    cmdQueue,                 \* mCommandQueue: submitted work the GPU has not executed
    mCurrBackBuffer,
    submittedFrames,          \* fence values of the frames Draw has submitted
    lastSignal,               \* the value of the last Signal Draw put on the queue
    frameLog,                 \* the calls of the current frame, in order
    waited,                   \* whether the current frame's Update waited for the fence
    initLog,                  \* the calls of Initialize, in order
    \* ---- scene data
    mAllRitems,               \* sequence of render items
    mMaterials,               \* material name -> material
    frCounts,                 \* element counts the frame resources were built with
    frObjectCB,               \* per frame resource: ObjectCB elements
    frMaterialCB,             \* per frame resource: MaterialCB elements
    frPassCB,                 \* per frame resource: PassCB element 0
    frWavesVB,                \* per frame resource: the waves vertex buffer (BlendApp)
    mObjectCB,                \* BoxApp: the object constant buffer's elements
    mGlobalCB,                \* BoxApp2: the global constant buffer's element
    mTexTransformScale,       \* CrateApp, in hundredths
    mCurrentSamplerFilter,
    mCurrentSamplerAddressMode,
    mSamplerDirty,
    mOpaqueDraw,
    mDrawTransparentFirst,
    mRenderMode,
    mBoltAnimSrvOffsetInHeap,
    lastUpdatedTime,          \* the static of BlendApp::AnimateMaterials, -1 before its first call
    mClientSize,              \* mClientWidth x mClientHeight
    mTheta,                   \* the camera's spherical coordinates
    mPhi,
    mRadius,
    mLastMousePos,            \* IndeterminatePos until the first mouse message sets it
    \* ---- GPU objects
    heaps,                    \* descriptor heap name -> [NumDescriptors, written]
    psoRootSig,               \* created PSO -> the root signature it was built with
    mDefaultPSOs,             \* BlendApp: PSO name -> PSO
    samplerDesc,              \* CrateApp: the sampler descriptor in the sampler heap
    mPixelOverdrawResources,  \* BlendApp: NoOverdraw or the overdraw record
    created,                  \* what was created, and during which call
    mCommandList,             \* the commands recorded by the last Draw
    mBoxGeo,                  \* BoxApp: the shape of each vertex, the indices and DrawArgs
    \* ---- history
    frameResourceHistory,     \* the frame resources of the last gNumFrameResources frames, oldest first
    resourceState,            \* resource -> the D3D12_RESOURCE_STATE the submitted command streams leave it in
    cbWriteLog,               \* the last Update: the NumFramesDirty each loop saw and the CopyData calls it made
    updatesUnmodified,        \* per render item and material: consecutive Updates since it was last modified, up to gNumFrameResources
    keyLog,                   \* BlendApp: the keys OnKeyDown has handled, in order
    overdrawDerefs,           \* BlendApp: the dereferences of mPixelOverdrawResources Draw has made
    inFlightAtDestroy         \* whether gNumFrameResources frames were in flight when the destructor began

syncVars == <<mCurrFrameResourceIndex, mCurrFrameResource, frFence, mCurrentFence,
              fenceCompleted, cmdQueue, mCurrBackBuffer, submittedFrames, lastSignal>>
logVars == <<frameLog, initLog, waited>>
sceneVars == <<mAllRitems, mMaterials, frCounts, frObjectCB, frMaterialCB, frPassCB,
               frWavesVB, mObjectCB, mGlobalCB, mBoltAnimSrvOffsetInHeap, lastUpdatedTime>>
inputVars == <<mTexTransformScale, mCurrentSamplerFilter, mCurrentSamplerAddressMode,
               mSamplerDirty, mOpaqueDraw, mDrawTransparentFirst, mRenderMode,
               mClientSize>>
cameraVars == <<mTheta, mPhi, mRadius, mLastMousePos>>
gpuObjVars == <<heaps, psoRootSig, mDefaultPSOs, samplerDesc, mPixelOverdrawResources,
                created, mCommandList, mBoxGeo>>
historyVars == <<frameResourceHistory, resourceState, cbWriteLog, updatesUnmodified, keyLog, overdrawDerefs, inFlightAtDestroy>>
vars == <<app, pc, flushFrom, numEvents, mTimer, syncVars, logVars, sceneVars, inputVars,
          cameraVars, gpuObjVars, historyVars>>

(***************************************************************************)
(* Matrices.  A matrix is a record naming its family and its parameters;   *)
(* XMMatrixTranspose flips the transposed mark, except on the diagonal     *)
(* matrices, which equal their transpose.                                  *)
(***************************************************************************)
Identity4x4 == [kind |-> "identity", a |-> 0, b |-> 0, c |-> 0, transposed |-> FALSE]

XMMatrixScaling(x, y, z) ==
    IF x = 100 /\ y = 100 /\ z = 100
    THEN Identity4x4
    ELSE [kind |-> "scale", a |-> x, b |-> y, c |-> z, transposed |-> FALSE]

XMMatrixTranslation(x, y, z) ==
    IF x = 0 /\ y = 0 /\ z = 0
    THEN Identity4x4
    ELSE [kind |-> "translate", a |-> x, b |-> y, c |-> z, transposed |-> FALSE]

\* T(-0.5,-0.5) * RotZ(t) * T(0.5,0.5), CrateApp::AnimateMaterials
RotationAboutUVCenter(t) ==
    [kind |-> "rotateUV", a |-> t, b |-> 0, c |-> 0, transposed |-> FALSE]

XMMatrixTranspose(m) ==
    IF m.kind \in {"identity", "scale"}
    THEN m
    ELSE [m EXCEPT !.transposed = ~m.transposed]

\* What an upload buffer element holds before the first CopyData.
Unwritten == [kind |-> "unwritten", a |-> 0, b |-> 0, c |-> 0, transposed |-> FALSE]

(***************************************************************************)
(* Materials and render items, as BuildMaterials and BuildRenderItems      *)
(* build them.  NumFramesDirty starts at gNumFrameResources.               *)
(***************************************************************************)
Material(cbIndex, srvIndex) ==
    [MatCBIndex |-> cbIndex, DiffuseSrvHeapIndex |-> srvIndex,
     NumFramesDirty |-> gNumFrameResources, MatTransform |-> Identity4x4]

BuildMaterials(a, boltOffset) ==
    IF a = "CrateApp"
    THEN [n \in {"woodCrate", "flareBox"} |->
            IF n = "woodCrate" THEN Material(0, 0) ELSE Material(1, 1)]
    ELSE IF a = "BlendApp"
    THEN [n \in {"grass", "water", "wirefence", "boltAnim"} |->
            CASE n = "grass" -> Material(0, 0)
              [] n = "water" -> Material(1, 1)
              [] n = "wirefence" -> Material(2, 2)
              [] OTHER -> Material(3, boltOffset)]
    ELSE << >>

\* A faulty render item whose constant-buffer index is one too high.
RenderItemIndexShifted(cbIndex, mat, world, tex, layer) ==
    [ObjCBIndex |-> cbIndex + 1, Mat |-> mat, World |-> world, TexTransform |-> tex,
     NumFramesDirty |-> gNumFrameResources, Layer |-> layer]

RenderItem(cbIndex, mat, world, tex, layer) ==
    [ObjCBIndex |-> cbIndex, Mat |-> mat, World |-> world, TexTransform |-> tex,
     NumFramesDirty |-> gNumFrameResources, Layer |-> layer]

BuildRenderItems(a) ==
    IF a = "CrateApp"
    THEN << RenderItem(0, "woodCrate", XMMatrixTranslation(-75, 0, 0), Identity4x4, "Opaque"),
            RenderItem(1, "flareBox", XMMatrixTranslation(75, 0, 0), Identity4x4, "Opaque") >>
    ELSE IF a = "BlendApp"
    THEN << RenderItem(0, "water", Identity4x4, XMMatrixScaling(500, 500, 100), "Transparent"),
            RenderItem(1, "grass", Identity4x4, XMMatrixScaling(500, 500, 100), "Opaque"),
            RenderItem(2, "wirefence", XMMatrixTranslation(300, 200, -900), Identity4x4,
                       "AlphaTested"),
            RenderItem(3, "boltAnim", XMMatrixTranslation(300, 1100, -900),
                       XMMatrixScaling(100, 400, 100), "AnimatedBolt") >>
    ELSE << >>

\* BuildFrameResources: every frame resource is built for this many elements.
BuildFrameResources(ritems, materials) ==
    [passCount |-> 1, objectCount |-> Len(ritems),
     materialCount |-> Cardinality(DOMAIN materials)]

\* UploadBuffer of n elements, not yet written.
NewUploadBuffer(n) == [i \in 0 .. (n - 1) |-> [World |-> Unwritten, TexTransform |-> Unwritten]]
NewMaterialBuffer(n) == [i \in 0 .. (n - 1) |-> [Props |-> "", MatTransform |-> Unwritten]]

\* UploadBuffer::CopyData(index, data)
CopyData(buffer, index, data) ==
    IF index \in DOMAIN buffer THEN [buffer EXCEPT ![index] = data] ELSE buffer

ObjectConstants(e) ==
    [World |-> XMMatrixTranspose(e.World), TexTransform |-> XMMatrixTranspose(e.TexTransform)]

MaterialConstants(name, mat) ==
    [Props |-> name, MatTransform |-> XMMatrixTranspose(mat.MatTransform)]

(***************************************************************************)
(* Descriptor heaps, root signatures and pipeline state objects.           *)
(***************************************************************************)
Heap(n, written) == [NumDescriptors |-> n, written |-> written]

\* A faulty heap size that reserves no descriptor for the overdraw quad texture.
BlendSrvHeapSizeNoQuad == 3 + AnimTexturesCount

\* mSrvDescriptorHeap of BlendApp: three scene textures, the bolt animation
\* frames, and one more descriptor for the overdraw quad texture.
BlendSrvHeapSize == 3 + AnimTexturesCount + 1

BuildDescriptorHeaps(a) ==
    CASE a = "CrateApp" ->
           [h \in {"srv", "sampler"} |->
              IF h = "srv" THEN Heap(3, {0, 1, 2}) ELSE Heap(1, {0})]
      [] a = "BlendApp" ->
           [h \in {"srv"} |->
              Heap(BlendSrvHeapSize,
                   {0, 1, 2} \cup
                   {BoltAnimSrvBase + i : i \in 0 .. (AnimTexturesCount - 1)})]
      [] OTHER ->
           [h \in {"cbv"} |-> Heap(2, {0, 1})]

TableRange(heap, n) == [heap |-> heap, NumDescriptors |-> n]

\* The descriptor tables of a root signature: root parameter index -> range.
RootSignatureTables(a, sig) ==
    CASE a = "CrateApp" /\ sig = "mRootSignature" ->
           (0 :> TableRange("srv", 1)) @@ (4 :> TableRange("sampler", 1))
      [] a = "CrateApp" /\ sig = "mFlareRootSignature" ->
           (0 :> TableRange("srv", 2)) @@ (4 :> TableRange("sampler", 1))
      [] a = "BlendApp" /\ sig = "mRootSignature" ->
           (0 :> TableRange("srv", 1))
      [] a = "BoxApp" /\ sig = "mRootSignature" ->
           (0 :> TableRange("cbv", 1))
      [] a = "BoxApp2" /\ sig = "mRootSignature" ->
           (0 :> TableRange("cbv", 2))
      [] OTHER -> << >>

NullPSO == "nullptr"
SceneLayerPSONames == {"opaque", "transparent", "alphaTested", "animatedBolt"}

\* BuildPSOs: the PSOs created during Initialize, each with its root signature.
BuildPSOs(a) ==
    CASE a = "CrateApp" ->
           [p \in {"mOpaquePSO", "mWireFramePSO", "mOpaqueFlarePSO", "mWireFrameFlarePSO"} |->
              IF p \in {"mOpaquePSO", "mWireFramePSO"}
              THEN "mRootSignature" ELSE "mFlareRootSignature"]
      [] a = "BlendApp" ->
           [p \in {"Normal." \o n : n \in SceneLayerPSONames} |-> "mRootSignature"]
      [] OTHER ->
           [p \in {"mPSO"} |-> "mRootSignature"]

\* A faulty version that builds no PSO for the bolt layer.
BuildPSOsForSceneRenderingNoBolt(mode) ==
    [n \in SceneLayerPSONames \ {"animatedBolt"} |-> mode \o "." \o n]

\* BuildPSOsForSceneRendering(mode, map): the map from PSO name to PSO.
BuildPSOsForSceneRendering(mode) ==
    [n \in SceneLayerPSONames |-> mode \o "." \o n]

NoOverdraw == [null |-> TRUE, quadPSO |-> NullPSO, mPixelOverdrawPSOs |-> << >>,
               quadTexture |-> 0, srvOffsetInHeap |-> 0]

\* std::unordered_map::operator[] : a missing key yields a null ComPtr.
MapLookup(map, key) == IF key \in DOMAIN map THEN map[key] ELSE NullPSO

\* The map after operator[] was applied to each of the keys: a missing key is
\* inserted with a null ComPtr.
MapAfterLookups(map, keys) ==
    [k \in (DOMAIN map) \cup keys |-> MapLookup(map, k)]

GetPsoForSceneRendering(mode, defaults, overdraw, psoName) ==
    IF mode = "PixelOverdraw"
    THEN MapLookup(overdraw.mPixelOverdrawPSOs, psoName)
    ELSE MapLookup(defaults, psoName)

\* mBoltAnimSrvOffsetInHeap = (currentOffset - 3 + 1) % mBoltAnimTextures.size() + 3
NextBoltOffset(currentOffset) ==
    ((currentOffset - BoltAnimSrvBase + 1) % AnimTexturesCount) + BoltAnimSrvBase

(***************************************************************************)
(* What is created, and during which call.                                 *)
(***************************************************************************)
Creation(kind, name, index, during) ==
    [kind |-> kind, what |-> <<name, index>>, during |-> during]

DescriptorsCreated(h, during) ==
    UNION {{Creation("descriptor", n, i, during) : i \in h[n].written} : n \in DOMAIN h}

ResourceNames(a) ==
    CASE a = "CrateApp" -> {"woodCrateTex", "flareTex", "flareAlphaTex", "boxGeo",
                            "mSrvDescriptorHeap", "mSamplerDescriptorHeap",
                            "mRootSignature", "mFlareRootSignature", "mFrameResources"}
      [] a = "BlendApp" -> {"grassTex", "waterTex", "fenceTex", "boltAnimTextures",
                            "landGeo", "waterGeo", "boxGeo", "boltGeo",
                            "mSrvDescriptorHeap", "mRootSignature", "mFrameResources"}
      [] a = "BoxApp2" -> {"boxGeo", "mCbvHeap", "mObjectCB", "mGlobalCB", "mRootSignature"}
      [] OTHER -> {"boxGeo", "mCbvHeap", "mObjectCB", "mRootSignature"}

InitializeCreates(a) ==
    {Creation("resource", n, 0, "Initialize") : n \in ResourceNames(a)} \cup
    {Creation("pso", p, 0, "Initialize") : p \in DOMAIN BuildPSOs(a)} \cup
    DescriptorsCreated(BuildDescriptorHeaps(a), "Initialize")

(***************************************************************************)
(* The command queue and the fence.                                        *)
(***************************************************************************)
ExecEntry(fr) == [type |-> "exec", fr |-> fr, value |-> 0]
SignalEntry(v) == [type |-> "signal", fr |-> NullFR, value |-> v]

ExecuteCommandLists(q, fr) == Append(q, ExecEntry(fr))
Signal(q, v) == Append(q, SignalEntry(v))

\* A faulty ++mCurrentFence that skips a value.
AdvanceFenceByTwo(f) == f + 2

\* ++mCurrentFence
AdvanceFence(f) == f + 1

\* A faulty cycle through one frame resource too few.
NextFrameResourceIndexShort(i) == (i + 1) % (gNumFrameResources - 1)

\* Update: mCurrFrameResourceIndex = (mCurrFrameResourceIndex + 1) % gNumFrameResources
NextFrameResourceIndex(i) == (i + 1) % gNumFrameResources

\* A faulty fence check that lets the CPU run one fence value early.
NeedFenceWaitOffByOne(fence, completed) == fence # 0 /\ completed + 1 < fence

\* A faulty fence check that never waits.
NeedFenceWaitNever(fence, completed) == FALSE

\* A faulty fence check that also waits for a fence value the GPU has reached.
NeedFenceWaitWhenDone(fence, completed) == fence # 0 /\ completed <= fence

\* Update: if(Fence != 0 && mFence->GetCompletedValue() < Fence) wait
NeedFenceWait(fence, completed) == fence # 0 /\ completed < fence

\* BoxApp::BuildConstantBuffers: one element per object drawn, not yet written.
BuildConstantBuffers(a) ==
    CASE a = "BoxApp" -> [i \in {0, 1} |-> -1]
      [] a = "BoxApp2" -> [i \in {0} |-> -1]
      [] OTHER -> << >>

\* The calls Initialize makes on the command list and the queue, in order.
InitializeCalls ==
    <<"CommandListReset", "Record", "Close", "ExecuteCommandLists", "FlushCommandQueue">>

\* The calls Draw makes before it submits, in order.
DrawRecordCalls == <<"AllocatorReset", "CommandListReset", "Record", "Close">>

\* A faulty Draw that presents before it submits the command list.
DrawSubmitCallsPresentFirst(a) ==
    IF a \in FrameResourceApps
    THEN <<"Present", "ExecuteCommandLists", "Signal">>
    ELSE <<"Present", "ExecuteCommandLists", "FlushCommandQueue">>

\* The calls Draw makes from the submission on, in order.
DrawSubmitCalls(a) ==
    IF a \in FrameResourceApps
    THEN <<"ExecuteCommandLists", "Present", "Signal">>
    ELSE <<"ExecuteCommandLists", "Present", "FlushCommandQueue">>

(***************************************************************************)
(* Resources and the states they are created in.                           *)
(***************************************************************************)
\* CurrentBackBuffer(): mSwapChainBuffer[mCurrBackBuffer]
CurrentBackBuffer(i) == IF i = 0 THEN "mSwapChainBuffer[0]" ELSE "mSwapChainBuffer[1]"

\* D3DApp::OnResize leaves the swap chain's buffers in PRESENT and has
\* transitioned the new depth/stencil buffer to DEPTH_WRITE.
SwapChainAndDepthBufferStates ==
    [r \in {CurrentBackBuffer(i) : i \in 0 .. (SwapChainBufferCount - 1)}
            \cup {"mDepthStencilBuffer"} |->
        IF r = "mDepthStencilBuffer" THEN "DEPTH_WRITE" ELSE "PRESENT"]

\* A faulty creation of the overdraw texture in the state the comment in Draw
\* names.
QuadTextureInitialStateCommon == "COMMON"

\* CreateCommittedResource(..., D3D12_RESOURCE_STATE_PIXEL_SHADER_RESOURCE, ...)
QuadTextureInitialState == "PIXEL_SHADER_RESOURCE"

\* The members' initial values: mTheta, mPhi and mRadius of each demo.
InitialTheta(a) == IF a = "CrateApp" THEN 936000 ELSE 1080000

InitialPhi(a) ==
    CASE a = "CrateApp" -> 288000
      [] a = "BlendApp" -> 360000 - PhiMin
      [] OTHER -> 180000

InitialRadius(a) ==
    CASE a = "CrateApp" -> 1000
      [] a = "BlendApp" -> 10000
      [] a = "BoxApp" -> 1200
      [] OTHER -> 1000

(***************************************************************************)
(* BoxApp::BuildBoxGeometry.                                               *)
(***************************************************************************)
BoxVertexCount == 8
BoxIndexCount == 36
PyramidVertexCount == 5
PyramidIndexCount == 18

\* The vertex array, each vertex by the shape it was written for; the index
\* array.  Both are 0-based in the code and 1-based here.
BoxVertices == [i \in 1 .. BoxVertexCount |-> "box"]
PyramidVertices == [i \in 1 .. PyramidVertexCount |-> "pyramid"]
BoxIndices ==
    << 0, 1, 2,  0, 2, 3,
       4, 6, 5,  4, 7, 6,
       4, 5, 1,  4, 1, 0,
       3, 2, 6,  3, 6, 7,
       1, 5, 6,  1, 6, 2,
       4, 0, 3,  4, 3, 7 >>
PyramidIndices ==
    << 1, 4, 0,  4, 3, 0,  3, 4, 2,  2, 4, 1,  1, 3, 2,  1, 0, 3 >>

SubmeshGeometry(indexCount, startIndexLocation, baseVertexLocation) ==
    [IndexCount |-> indexCount, StartIndexLocation |-> startIndexLocation,
     BaseVertexLocation |-> baseVertexLocation]

NoGeometry == [vertices |-> << >>, indices |-> << >>, DrawArgs |-> << >>]

\* A faulty version that leaves the pyramid's BaseVertexLocation at 0.
BuildBoxGeometryNoBaseVertex(a) ==
    [vertices |-> BoxVertices \o PyramidVertices,
     indices |-> BoxIndices \o PyramidIndices,
     DrawArgs |-> ("box" :> SubmeshGeometry(BoxIndexCount, 0, 0)) @@
                  ("pyramid" :> SubmeshGeometry(PyramidIndexCount, BoxIndexCount, 0))]

\* BoxApp: the box and the pyramid share one vertex and one index buffer.
\* The single-box variant has the box alone and draws all its indices.
BuildBoxGeometry(a) ==
    CASE a = "BoxApp" ->
           [vertices |-> BoxVertices \o PyramidVertices,
            indices |-> BoxIndices \o PyramidIndices,
            DrawArgs |-> ("box" :> SubmeshGeometry(BoxIndexCount, 0, 0)) @@
                         ("pyramid" :> SubmeshGeometry(PyramidIndexCount, BoxIndexCount,
                                                       BoxVertexCount))]
      [] a = "BoxApp2" ->
           [vertices |-> BoxVertices,
            indices |-> BoxIndices,
            DrawArgs |-> ("box" :> SubmeshGeometry(Len(BoxIndices), 0, 0))]
      [] OTHER -> NoGeometry

\* What the input assembler reads for DrawIndexedInstanced(IndexCount, 1,
\* StartIndexLocation, BaseVertexLocation, 0): the positions in the index
\* buffer, and for position k the vertex indices[k] + BaseVertexLocation.
IndexRange(submesh) ==
    submesh.StartIndexLocation .. (submesh.StartIndexLocation + submesh.IndexCount - 1)

FetchedVertex(geo, submesh, k) == geo.indices[k + 1] + submesh.BaseVertexLocation

\* POINT mLastMousePos has no initialiser: its value is indeterminate until a
\* mouse message assigns it.
IndeterminatePos == [x |-> -1, y |-> -1]

Init ==
    /\ app \in Apps
    /\ mTheta = InitialTheta(app)
    /\ mPhi = InitialPhi(app)
    /\ mRadius = InitialRadius(app)
    /\ mLastMousePos = IndeterminatePos
    /\ pc = "start"
    /\ flushFrom = ""
    /\ numEvents = 0
    /\ mTimer = [TotalTime |-> 0, DeltaTime |-> 0]
    /\ mCurrFrameResourceIndex = 0
    /\ mCurrFrameResource = NullFR
    /\ frFence = [f \in FRs |-> 0]
    /\ mCurrentFence = 0
    /\ fenceCompleted = 0
    /\ cmdQueue = << >>
    /\ mCurrBackBuffer = 0
    /\ submittedFrames = {}
    /\ lastSignal = 0
    /\ frameLog = << >>
    /\ waited = FALSE
    /\ initLog = << >>
    /\ mAllRitems = << >>
    /\ mMaterials = << >>
    /\ frCounts = [passCount |-> 0, objectCount |-> 0, materialCount |-> 0]
    /\ frObjectCB = [f \in FRs |-> << >>]
    /\ frMaterialCB = [f \in FRs |-> << >>]
    /\ frPassCB = [f \in FRs |-> [TotalTime |-> -1, RenderTargetSize |-> 0]]
    /\ frWavesVB = [f \in FRs |-> -1]
    /\ mObjectCB = << >>
    /\ mGlobalCB = -1
    /\ mTexTransformScale = 100
    /\ mCurrentSamplerFilter = "MIN_MAG_MIP_POINT"
    /\ mCurrentSamplerAddressMode = "WRAP"
    /\ mSamplerDirty = FALSE
    /\ mOpaqueDraw = TRUE
    /\ mDrawTransparentFirst = FALSE
    /\ mRenderMode = "Normal"
    /\ mBoltAnimSrvOffsetInHeap = 0
    /\ lastUpdatedTime = -1
    /\ mClientSize = 1
    /\ heaps = << >>
    /\ psoRootSig = << >>
    /\ mDefaultPSOs = << >>
    /\ samplerDesc = [Filter |-> "", Address |-> ""]
    /\ mPixelOverdrawResources = NoOverdraw
    /\ created = {}
    /\ mCommandList = << >>
    /\ mBoxGeo = NoGeometry
    /\ inFlightAtDestroy = FALSE
    /\ overdrawDerefs = {}
    /\ keyLog = << >>
    /\ updatesUnmodified = [obj |-> << >>, mat |-> << >>]
    /\ cbWriteLog = [objSeen |-> << >>, objWrites |-> << >>, matSeen |-> << >>, matWrites |-> << >>]
    /\ resourceState = << >>
    /\ frameResourceHistory = << >>

\* The GPU executes the entry at the head of the command queue; a Signal
\* entry sets the fence's completed value.
GpuExecute ==
    /\ cmdQueue # << >>
    /\ fenceCompleted' = IF Head(cmdQueue).type = "signal"
                         THEN Head(cmdQueue).value
                         ELSE fenceCompleted
    /\ cmdQueue' = Tail(cmdQueue)
    /\ UNCHANGED <<app, mBoxGeo, inFlightAtDestroy, overdrawDerefs, keyLog, updatesUnmodified, cbWriteLog, resourceState, frameResourceHistory, cameraVars, mTimer, pc, flushFrom, numEvents, mCurrFrameResourceIndex,
                   mCurrFrameResource, frFence, mCurrentFence, mCurrBackBuffer,
                   submittedFrames, lastSignal, logVars, sceneVars, inputVars, gpuObjVars>>

\* D3DApp::FlushCommandQueue, up to the wait: advance the fence and signal it.
FlushBegin(q, from) ==
    /\ mCurrentFence' = AdvanceFence(mCurrentFence)
    /\ cmdQueue' = Signal(q, AdvanceFence(mCurrentFence))
    /\ flushFrom' = from
    /\ pc' = "flush"

\* Where the CPU thread continues when the flush called from `from` returns.
AfterFlush(from) == IF from = "Destructor" THEN "done" ELSE "idle"

\* A faulty flush that returns one fence value early.
FlushReachedEarly(completed, fence) == completed + 1 >= fence

\* FlushCommandQueue waits until the GPU has completed commands up to the
\* fence point it has just signalled.
FlushReached(completed, fence) == completed >= fence

\* D3DApp::FlushCommandQueue, the wait: returns when the GPU reached the fence.
FlushWait ==
    /\ pc = "flush"
    /\ FlushReached(fenceCompleted, mCurrentFence)
    /\ pc' = AfterFlush(flushFrom)
    /\ flushFrom' = ""
    /\ initLog' = IF flushFrom = "Initialize" THEN Append(initLog, "return true") ELSE initLog
    /\ UNCHANGED <<app, mBoxGeo, inFlightAtDestroy, overdrawDerefs, keyLog, updatesUnmodified, cbWriteLog, resourceState, frameResourceHistory, cameraVars, mTimer, numEvents, syncVars, frameLog, waited, sceneVars, inputVars,
                   gpuObjVars>>

Initialize ==
    /\ pc = "start"
    /\ initLog' = InitializeCalls
    /\ mBoxGeo' = BuildBoxGeometry(app)
    /\ heaps' = BuildDescriptorHeaps(app)
    /\ mBoltAnimSrvOffsetInHeap' = IF app = "BlendApp" THEN BoltAnimSrvBase ELSE 0
    /\ mMaterials' = BuildMaterials(app, mBoltAnimSrvOffsetInHeap')
    /\ mAllRitems' = BuildRenderItems(app)
    /\ frCounts' = BuildFrameResources(mAllRitems', mMaterials')
    /\ frObjectCB' = [f \in FRs |-> NewUploadBuffer(frCounts'.objectCount)]
    /\ frMaterialCB' = [f \in FRs |-> NewMaterialBuffer(frCounts'.materialCount)]
    /\ mObjectCB' = BuildConstantBuffers(app)
    /\ psoRootSig' = BuildPSOs(app)
    /\ mDefaultPSOs' = IF app = "BlendApp" THEN BuildPSOsForSceneRendering("Normal") ELSE << >>
    /\ samplerDesc' = IF app = "CrateApp"
                      THEN [Filter |-> mCurrentSamplerFilter,
                            Address |-> mCurrentSamplerAddressMode]
                      ELSE samplerDesc
    /\ created' = InitializeCreates(app)
    /\ resourceState' = SwapChainAndDepthBufferStates
    /\ updatesUnmodified' = [obj |-> [i \in DOMAIN mAllRitems' |-> 0],
                             mat |-> [n \in DOMAIN mMaterials' |-> 0]]
    /\ FlushBegin(ExecuteCommandLists(cmdQueue, NullFR), "Initialize")
    /\ UNCHANGED <<app, inFlightAtDestroy, overdrawDerefs, keyLog, cbWriteLog, frameResourceHistory, cameraVars, mTimer, numEvents, mCurrFrameResourceIndex, mCurrFrameResource, frFence,
                   fenceCompleted, mCurrBackBuffer, submittedFrames, lastSignal, frameLog,
                   waited, frPassCB, frWavesVB, mGlobalCB, lastUpdatedTime, inputVars,
                   mPixelOverdrawResources,
                   mCommandList>>

(***************************************************************************)
(* Window messages, handled by the message pump between two frames.        *)
(***************************************************************************)
CrateKeys == {"1", "2", "3", "4", "5", "6", "7", "8", "9", "F1", "F2"}
BlendKeys == {"1", "F1", "F2"}

\* CrateApp::ScaleTexTransform: mTexTransformScale = max(scale + delta, 0.1f)
ScaledTexTransformScale(scale, delta) ==
    IF scale + delta >= 10 THEN scale + delta ELSE 10

\* A faulty ScaleTexTransform that marks the items dirty for one frame
\* resource too few.
ScaleTexTransformDirtyTwo(items, scale) ==
    [i \in DOMAIN items |->
        [items[i] EXCEPT !.TexTransform = XMMatrixScaling(scale, scale, 100),
                         !.NumFramesDirty = gNumFrameResources - 1]]

ScaleTexTransform(items, scale) ==
    [i \in DOMAIN items |->
        [items[i] EXCEPT !.TexTransform = XMMatrixScaling(scale, scale, 100),
                         !.NumFramesDirty = gNumFrameResources]]

KeyFilter(k) ==
    CASE k = "3" -> "MIN_MAG_MIP_POINT"
      [] k = "4" -> "MIN_MAG_MIP_LINEAR"
      [] OTHER -> "ANISOTROPIC"

KeyAddressMode(k) ==
    CASE k = "6" -> "WRAP"
      [] k = "7" -> "CLAMP"
      [] k = "8" -> "BORDER"
      [] OTHER -> "MIRROR"

CrateOnKeyDown(k) ==
    /\ pc = "idle"
    /\ app = "CrateApp"
    /\ numEvents < EventBudget(app)
    /\ numEvents' = numEvents + 1
    /\ mTexTransformScale' =
          CASE k = "1" -> ScaledTexTransformScale(mTexTransformScale, 1)
            [] k = "2" -> ScaledTexTransformScale(mTexTransformScale, -1)
            [] OTHER -> mTexTransformScale
    /\ mAllRitems' = IF k \in {"1", "2"}
                     THEN ScaleTexTransform(mAllRitems, mTexTransformScale')
                     ELSE mAllRitems
    /\ updatesUnmodified' = IF k \in {"1", "2"}
                            THEN [updatesUnmodified EXCEPT
                                     !.obj = [i \in DOMAIN mAllRitems |-> 0]]
                            ELSE updatesUnmodified
    /\ mCurrentSamplerFilter' =
          IF k \in {"3", "4", "5"} THEN KeyFilter(k) ELSE mCurrentSamplerFilter
    /\ mCurrentSamplerAddressMode' =
          IF k \in {"6", "7", "8", "9"} THEN KeyAddressMode(k) ELSE mCurrentSamplerAddressMode
    /\ mSamplerDirty' =
          (mSamplerDirty
             \/ mCurrentSamplerFilter' # mCurrentSamplerFilter
             \/ mCurrentSamplerAddressMode' # mCurrentSamplerAddressMode)
    /\ mOpaqueDraw' = CASE k = "F1" -> TRUE [] k = "F2" -> FALSE [] OTHER -> mOpaqueDraw
    /\ UNCHANGED <<app, mBoxGeo, inFlightAtDestroy, overdrawDerefs, keyLog, cbWriteLog, resourceState, frameResourceHistory, cameraVars, mTimer, pc, flushFrom, syncVars, logVars, mMaterials, frCounts, frObjectCB,
                   frMaterialCB, frPassCB, frWavesVB, mObjectCB, mGlobalCB,
                   mBoltAnimSrvOffsetInHeap, lastUpdatedTime,
                   mDrawTransparentFirst, mRenderMode, mClientSize, gpuObjVars>>

\* BlendApp::ChangeRenderMode
ChangeRenderMode(mode, newMode) == IF newMode = mode THEN mode ELSE newMode

BlendOnKeyDown(k) ==
    /\ pc = "idle"
    /\ app = "BlendApp"
    /\ numEvents < EventBudget(app)
    /\ numEvents' = numEvents + 1
    /\ mDrawTransparentFirst' = IF k = "1" THEN ~mDrawTransparentFirst ELSE mDrawTransparentFirst
    /\ keyLog' = Append(keyLog, k)
    /\ mRenderMode' = CASE k = "F1" -> ChangeRenderMode(mRenderMode, "Normal")
                        [] k = "F2" -> ChangeRenderMode(mRenderMode, "PixelOverdraw")
                        [] OTHER -> mRenderMode
    /\ UNCHANGED <<app, mBoxGeo, inFlightAtDestroy, overdrawDerefs, updatesUnmodified, cbWriteLog, resourceState, frameResourceHistory, cameraVars, mTimer, pc, flushFrom, syncVars, logVars, sceneVars, mTexTransformScale,
                   mCurrentSamplerFilter, mCurrentSamplerAddressMode, mSamplerDirty,
                   mOpaqueDraw, mClientSize, gpuObjVars>>

(***************************************************************************)
(* Mouse messages.                                                         *)
(***************************************************************************)
\* MathHelper::Clamp
Clamp(x, low, high) == IF x < low THEN low ELSE IF x > high THEN high ELSE x

\* The radius a pixel of mouse movement stands for, and the radius limits.
RadiusPerPixel(a) ==
    CASE a = "CrateApp" -> 10
      [] a = "BlendApp" -> 40
      [] OTHER -> 1

RadiusMin(a) == IF a \in BoxApps THEN 600 ELSE 1000
RadiusMax(a) == IF a \in BoxApps THEN 3000 ELSE 30000

\* OnMouseMove with the left button: mPhi += dy, then the clamp.
MovedPhi(phi, dy) == Clamp(phi + AnglePerPixel * dy, PhiMin, PhiMax)

\* A faulty OnMouseMove that does not restrict the radius.
MovedRadiusUnclamped(a, radius, dx, dy) == radius + RadiusPerPixel(a) * (dx - dy)

\* OnMouseMove with the right button: mRadius += dx - dy, then the clamp.
MovedRadius(a, radius, dx, dy) ==
    Clamp(radius + RadiusPerPixel(a) * (dx - dy), RadiusMin(a), RadiusMax(a))

\* The values a read of mLastMousePos can yield.
LastMousePositions(last) == IF last = IndeterminatePos THEN MousePositions ELSE {last}

OnMouseDown(pos) ==
    /\ pc = "idle"
    /\ numEvents < MaxMouseEvents
    /\ numEvents' = numEvents + 1
    /\ mLastMousePos' = pos
    /\ UNCHANGED <<app, mBoxGeo, inFlightAtDestroy, overdrawDerefs, keyLog, updatesUnmodified, cbWriteLog, resourceState, frameResourceHistory, mTheta, mPhi, mRadius, pc, flushFrom, mTimer, syncVars, logVars,
                   sceneVars, inputVars, gpuObjVars>>

\* OnMouseUp releases the mouse capture and changes no member.
OnMouseUp(pos) ==
    /\ pc = "idle"
    /\ numEvents < MaxMouseEvents
    /\ numEvents' = numEvents + 1
    /\ UNCHANGED <<app, mBoxGeo, inFlightAtDestroy, overdrawDerefs, keyLog, updatesUnmodified, cbWriteLog, resourceState, frameResourceHistory, cameraVars, pc, flushFrom, mTimer, syncVars, logVars, sceneVars,
                   inputVars, gpuObjVars>>

OnMouseMove(btnState, pos) ==
    /\ pc = "idle"
    /\ numEvents < MaxMouseEvents
    /\ numEvents' = numEvents + 1
    /\ \E last \in LastMousePositions(mLastMousePos) :
          LET dx == pos.x - last.x
              dy == pos.y - last.y
          IN IF btnState \in {"MK_LBUTTON", "MK_LBUTTON|MK_RBUTTON"}
             THEN /\ mTheta' = mTheta + AnglePerPixel * dx
                  /\ mPhi' = MovedPhi(mPhi, dy)
                  /\ UNCHANGED mRadius
             ELSE IF btnState = "MK_RBUTTON"
             THEN /\ mRadius' = MovedRadius(app, mRadius, dx, dy)
                  /\ UNCHANGED <<mTheta, mPhi>>
             ELSE UNCHANGED <<mTheta, mPhi, mRadius>>
    /\ mLastMousePos' = pos
    /\ UNCHANGED <<app, mBoxGeo, inFlightAtDestroy, overdrawDerefs, keyLog, updatesUnmodified, cbWriteLog, resourceState, frameResourceHistory, pc, flushFrom, mTimer, syncVars, logVars, sceneVars, inputVars,
                   gpuObjVars>>

\* OnResize: D3DApp::OnResize flushes the queue and rebuilds the swap chain
\* buffers and the depth buffer for the new client size.
OnResize(size) ==
    /\ pc = "idle"
    /\ numEvents < EventBudget(app)
    /\ mCurrentFence < MaxFence
    /\ numEvents' = numEvents + 1
    /\ mClientSize' = size
    /\ mCurrBackBuffer' = 0
    /\ resourceState' = SwapChainAndDepthBufferStates @@ resourceState
    /\ FlushBegin(cmdQueue, "OnResize")
    /\ UNCHANGED <<app, mBoxGeo, inFlightAtDestroy, overdrawDerefs, keyLog, updatesUnmodified, cbWriteLog, frameResourceHistory, cameraVars, mTimer, mCurrFrameResourceIndex, mCurrFrameResource, frFence, fenceCompleted,
                   submittedFrames, lastSignal, logVars, sceneVars, mTexTransformScale,
                   mCurrentSamplerFilter, mCurrentSamplerAddressMode, mSamplerDirty,
                   mOpaqueDraw, mDrawTransparentFirst, mRenderMode, gpuObjVars>>

\* The application quits: ~CrateApp and ~BlendApp flush the command queue,
\* ~BoxApp does nothing.
\* md3dDevice is created by D3DApp::Initialize: it is null in an object whose
\* Initialize has not run.
DeviceExists(p) == p \notin {"start", "doneNoDevice"}

\* A faulty destructor that never flushes.
DestructorFlushesNever(a, device) == FALSE

\* ~CrateApp, ~BlendApp: if(md3dDevice != nullptr) FlushCommandQueue();
\* ~BoxApp has an empty body.
DestructorFlushes(a, device) == a \in FrameResourceApps /\ device

\* The destructor, at app exit: after the message loop has ended, or after
\* Initialize was not run.
Destroy ==
    /\ pc \in {"start", "idle"}
    /\ inFlightAtDestroy' =
          (Cardinality({f \in submittedFrames : f > fenceCompleted}) = gNumFrameResources)
    /\ IF DestructorFlushes(app, DeviceExists(pc))
       THEN FlushBegin(cmdQueue, "Destructor")
       ELSE /\ pc' = IF DeviceExists(pc) THEN "done" ELSE "doneNoDevice"
            /\ UNCHANGED <<flushFrom, mCurrentFence, cmdQueue>>
    /\ UNCHANGED <<app, mBoxGeo, overdrawDerefs, keyLog, updatesUnmodified, cbWriteLog, resourceState, frameResourceHistory, cameraVars, mTimer, numEvents, mCurrFrameResourceIndex, mCurrFrameResource, frFence,
                   fenceCompleted, mCurrBackBuffer, submittedFrames, lastSignal, logVars,
                   sceneVars, inputVars, gpuObjVars>>

(***************************************************************************)
(* Update of CrateApp and BlendApp.                                        *)
(***************************************************************************)
\* D3DApp::Run ticks the timer before each Update: the total time advances by
\* the frame's delta time.
Tick(timer, dt) == [TotalTime |-> timer.TotalTime + dt, DeltaTime |-> dt]

\* The frame resources of the last gNumFrameResources frames, fr the newest.
LastFrames(history, fr) ==
    IF Len(history) < gNumFrameResources
    THEN Append(history, fr)
    ELSE Append(Tail(history), fr)

\* Update, up to the fence check: cycle to the next frame resource.
UpdateBegin(dt) ==
    /\ pc = "idle"
    /\ app \in FrameResourceApps
    /\ mCurrentFence < MaxFence
    /\ mTimer.TotalTime + dt <= MaxTime
    /\ mTimer' = Tick(mTimer, dt)
    /\ mCurrFrameResourceIndex' = NextFrameResourceIndex(mCurrFrameResourceIndex)
    /\ mCurrFrameResource' = mCurrFrameResourceIndex'
    /\ frameResourceHistory' = LastFrames(frameResourceHistory, mCurrFrameResource')
    /\ pc' = IF NeedFenceWait(frFence[mCurrFrameResource'], fenceCompleted)
             THEN "fenceWait" ELSE "updateCBs"
    /\ frameLog' = <<"Update">>
    /\ waited' = FALSE
    /\ UNCHANGED <<app, mBoxGeo, inFlightAtDestroy, overdrawDerefs, keyLog, updatesUnmodified, cbWriteLog, resourceState, cameraVars, flushFrom, numEvents, frFence, mCurrentFence, fenceCompleted,
                   cmdQueue, mCurrBackBuffer, submittedFrames, lastSignal, initLog,
                   sceneVars, inputVars, gpuObjVars>>

\* A faulty SetEventOnCompletion that asks for a fence value no Signal on the
\* queue carries yet.
EventSetLate(fence, completed) == completed >= fence + gNumFrameResources

\* mFence->SetEventOnCompletion(Fence, eventHandle): the event is set once the
\* fence's completed value reaches Fence.
EventSet(fence, completed) == completed >= fence

\* Update, the wait: WaitForSingleObject returns when the fence reached the
\* frame resource's value.
FenceWait ==
    /\ pc = "fenceWait"
    /\ EventSet(frFence[mCurrFrameResource], fenceCompleted)
    /\ pc' = "updateCBs"
    /\ waited' = TRUE
    /\ UNCHANGED <<app, mBoxGeo, inFlightAtDestroy, overdrawDerefs, keyLog, updatesUnmodified, cbWriteLog, resourceState, frameResourceHistory, cameraVars, mTimer, flushFrom, numEvents, syncVars, frameLog, initLog, sceneVars,
                   inputVars, gpuObjVars>>

RECURSIVE UpdateObjectCBsFrom(_, _, _)
UpdateObjectCBsFrom(items, buffer, i) ==
    IF i > Len(items)
    THEN buffer
    ELSE UpdateObjectCBsFrom(items,
                             IF items[i].NumFramesDirty > 0
                             THEN CopyData(buffer, items[i].ObjCBIndex, ObjectConstants(items[i]))
                             ELSE buffer,
                             i + 1)

\* A faulty update pass that decrements NumFramesDirty without looking at it.
DirtyAfterUpdateUnguarded(n) == n - 1

\* The value NumFramesDirty has after an update pass.
DirtyAfterUpdate(n) == IF n > 0 THEN n - 1 ELSE n

\* The number of CopyData calls the loop of UpdateObjectCBs makes for each
\* render item, counted from item i on.
RECURSIVE ObjectCBWritesFrom(_, _, _)
ObjectCBWritesFrom(items, writes, i) ==
    IF i > Len(items)
    THEN writes
    ELSE ObjectCBWritesFrom(items,
                            IF items[i].NumFramesDirty > 0
                            THEN [writes EXCEPT ![i] = @ + 1]
                            ELSE writes,
                            i + 1)

ObjectCBWrites(items) == ObjectCBWritesFrom(items, [i \in DOMAIN items |-> 0], 1)

\* The number of CopyData calls the loop of UpdateMaterialCBs makes for each
\* material.
RECURSIVE MaterialCBWritesOver(_, _, _)
MaterialCBWritesOver(materials, writes, names) ==
    IF names = {}
    THEN writes
    ELSE LET n == CHOOSE x \in names : TRUE
         IN MaterialCBWritesOver(materials,
                                 IF materials[n].NumFramesDirty > 0
                                 THEN [writes EXCEPT ![n] = @ + 1]
                                 ELSE writes,
                                 names \ {n})

MaterialCBWrites(materials) ==
    MaterialCBWritesOver(materials, [n \in DOMAIN materials |-> 0], DOMAIN materials)

\* What the two loops of an Update saw and wrote.
WriteLog(items, materials) ==
    [objSeen |-> [i \in DOMAIN items |-> items[i].NumFramesDirty],
     objWrites |-> ObjectCBWrites(items),
     matSeen |-> [n \in DOMAIN materials |-> materials[n].NumFramesDirty],
     matWrites |-> MaterialCBWrites(materials)]

\* The render items and materials AnimateMaterials modifies in every Update.
AnimatedItems(a) == IF a = "CrateApp" THEN {2} ELSE {}
AnimatedMaterials(a) == IF a = "BlendApp" THEN {"water"} ELSE {}

\* One more Update has passed: the count restarts for what it modified.
CountUpdate(counts, modified) ==
    [k \in DOMAIN counts |->
        IF k \in modified THEN 0
        ELSE IF counts[k] < gNumFrameResources THEN counts[k] + 1 ELSE counts[k]]

UpdateObjectCBs(items, buffer) == UpdateObjectCBsFrom(items, buffer, 1)

ItemsAfterUpdate(items) ==
    [i \in DOMAIN items |->
        [items[i] EXCEPT !.NumFramesDirty = DirtyAfterUpdate(items[i].NumFramesDirty)]]

RECURSIVE UpdateMaterialCBsOver(_, _, _)
UpdateMaterialCBsOver(materials, buffer, names) ==
    IF names = {}
    THEN buffer
    ELSE LET n == CHOOSE x \in names : TRUE
         IN UpdateMaterialCBsOver(materials,
                                  IF materials[n].NumFramesDirty > 0
                                  THEN CopyData(buffer, materials[n].MatCBIndex,
                                                MaterialConstants(n, materials[n]))
                                  ELSE buffer,
                                  names \ {n})

UpdateMaterialCBs(materials, buffer) ==
    UpdateMaterialCBsOver(materials, buffer, DOMAIN materials)

MaterialsAfterUpdate(materials) ==
    [n \in DOMAIN materials |->
        [materials[n] EXCEPT !.NumFramesDirty = DirtyAfterUpdate(materials[n].NumFramesDirty)]]

\* UpdateMainPassCB: the pass constants that depend on model state.
PassConstants(t, size) == [TotalTime |-> t, RenderTargetSize |-> size]

\* CrateApp::AnimateMaterials: the second opaque item's TexTransform rotates
\* about the centre of the UV square; the rotation by 0 is the identity.
CrateAnimateMaterials(items, t) ==
    [items EXCEPT ![2].TexTransform =
                      IF t = 0 THEN Identity4x4 ELSE RotationAboutUVCenter(t),
                  ![2].NumFramesDirty = gNumFrameResources]

\* A faulty UpdateSampler that rewrites the descriptor in every Update.
UpdateSamplerCreatesAlways(dirty) == {Creation("descriptor", "sampler", 0, "Update")}

\* CrateApp::UpdateSampler: the sampler descriptor is rewritten when dirty.
UpdateSamplerCreates(dirty) ==
    IF dirty THEN {Creation("descriptor", "sampler", 0, "Update")} ELSE {}

\* CrateApp::Update after the fence check.
CrateUpdateCBs ==
    /\ pc = "updateCBs"
    /\ app = "CrateApp"
    /\ LET items == CrateAnimateMaterials(mAllRitems, mTimer.TotalTime)
       IN /\ frObjectCB' = [frObjectCB EXCEPT ![mCurrFrameResource] =
                                UpdateObjectCBs(items, @)]
          /\ mAllRitems' = ItemsAfterUpdate(items)
          /\ cbWriteLog' = WriteLog(items, mMaterials)
    /\ updatesUnmodified' =
          [obj |-> CountUpdate(updatesUnmodified.obj, AnimatedItems(app)),
           mat |-> CountUpdate(updatesUnmodified.mat, AnimatedMaterials(app))]
    /\ frMaterialCB' = [frMaterialCB EXCEPT ![mCurrFrameResource] =
                            UpdateMaterialCBs(mMaterials, @)]
    /\ mMaterials' = MaterialsAfterUpdate(mMaterials)
    /\ frPassCB' = [frPassCB EXCEPT ![mCurrFrameResource] = PassConstants(mTimer.TotalTime, mClientSize)]
    /\ samplerDesc' = IF mSamplerDirty
                      THEN [Filter |-> mCurrentSamplerFilter,
                            Address |-> mCurrentSamplerAddressMode]
                      ELSE samplerDesc
    /\ created' = created \cup UpdateSamplerCreates(mSamplerDirty)
    /\ mSamplerDirty' = FALSE
    /\ pc' = "draw"
    /\ UNCHANGED <<app, mBoxGeo, inFlightAtDestroy, overdrawDerefs, keyLog, resourceState, frameResourceHistory, cameraVars, mTimer, flushFrom, numEvents, syncVars, logVars, frCounts, frWavesVB,
                   mObjectCB, mGlobalCB, mBoltAnimSrvOffsetInHeap, lastUpdatedTime,
                   mTexTransformScale, mCurrentSamplerFilter,
                   mCurrentSamplerAddressMode, mOpaqueDraw, mDrawTransparentFirst,
                   mRenderMode, mClientSize, heaps, psoRootSig, mDefaultPSOs,
                   mPixelOverdrawResources, mCommandList>>

\* BlendApp::AnimateMaterials, the water: tu += 0.1 dt (in tenths), tv += 0.02 dt
\* (in fiftieths), each wrapped at 1.0.
Wrap(v, period) == IF v >= period THEN v - period ELSE v

ScrollWater(mat, dt) ==
    [mat EXCEPT !.MatTransform = XMMatrixTranslation(Wrap(mat.MatTransform.a + dt, TuPeriod),
                                                     Wrap(mat.MatTransform.b + dt, TvPeriod),
                                                     0),
                !.NumFramesDirty = gNumFrameResources]

BlendAnimateMaterials(materials, dt, boltDue, boltOffset) ==
    [n \in DOMAIN materials |->
        CASE n = "water" -> ScrollWater(materials[n], dt)
          [] n = "boltAnim" /\ boltDue ->
               [materials[n] EXCEPT !.DiffuseSrvHeapIndex = NextBoltOffset(boltOffset)]
          [] OTHER -> materials[n]]

\* static float lastUpdatedTime = gt.TotalTime(): set by the first call.
LastUpdatedTime(last, t) == IF last < 0 THEN t ELSE last

\* if (currentTime - lastUpdatedTime >= updateInterval): the time unit is
\* longer than the interval of 1/30 s, so any advance of the time is due.
BoltDue(last, t) == t - LastUpdatedTime(last, t) >= 1

\* BlendApp::Update after the fence check.
BlendUpdateCBs ==
    /\ pc = "updateCBs"
    /\ app = "BlendApp"
    /\ LET boltDue == BoltDue(lastUpdatedTime, mTimer.TotalTime)
       IN /\ mBoltAnimSrvOffsetInHeap' = IF boltDue
                                         THEN NextBoltOffset(mBoltAnimSrvOffsetInHeap)
                                         ELSE mBoltAnimSrvOffsetInHeap
          /\ lastUpdatedTime' = IF boltDue
                                THEN mTimer.TotalTime
                                ELSE LastUpdatedTime(lastUpdatedTime, mTimer.TotalTime)
          /\ LET materials == BlendAnimateMaterials(mMaterials, mTimer.DeltaTime, boltDue,
                                                    mBoltAnimSrvOffsetInHeap)
             IN /\ frMaterialCB' = [frMaterialCB EXCEPT ![mCurrFrameResource] =
                                        UpdateMaterialCBs(materials, @)]
                /\ mMaterials' = MaterialsAfterUpdate(materials)
                /\ cbWriteLog' = WriteLog(mAllRitems, materials)
    /\ updatesUnmodified' =
          [obj |-> CountUpdate(updatesUnmodified.obj, AnimatedItems(app)),
           mat |-> CountUpdate(updatesUnmodified.mat, AnimatedMaterials(app))]
    /\ frObjectCB' = [frObjectCB EXCEPT ![mCurrFrameResource] =
                          UpdateObjectCBs(mAllRitems, @)]
    /\ mAllRitems' = ItemsAfterUpdate(mAllRitems)
    /\ frPassCB' = [frPassCB EXCEPT ![mCurrFrameResource] = PassConstants(mTimer.TotalTime, mClientSize)]
    /\ frWavesVB' = [frWavesVB EXCEPT ![mCurrFrameResource] = mTimer.TotalTime]
    /\ pc' = "draw"
    /\ UNCHANGED <<app, mBoxGeo, inFlightAtDestroy, overdrawDerefs, keyLog, resourceState, frameResourceHistory, cameraVars, mTimer, flushFrom, numEvents, syncVars, logVars, frCounts, mObjectCB,
                   mGlobalCB, inputVars, gpuObjVars>>

(***************************************************************************)
(* Draw: the commands recorded on the command list.                        *)
(***************************************************************************)
Cmd(op, name, slot, base) == [op |-> op, name |-> name, slot |-> slot, base |-> base]

ResetCmd(initialPSO) == Cmd("Reset", initialPSO, 0, 0)
SetPipelineState(pso) == Cmd("SetPipelineState", pso, 0, 0)
SetGraphicsRootSignature(sig) == Cmd("SetGraphicsRootSignature", sig, 0, 0)
SetGraphicsRootDescriptorTable(slot, heap, offset) ==
    Cmd("SetGraphicsRootDescriptorTable", heap, slot, offset)
SetGraphicsRootConstantBufferView(slot, buffer, index) ==
    Cmd("SetGraphicsRootConstantBufferView", buffer, slot, index)
DrawIndexedInstanced(what, index) == Cmd("DrawIndexedInstanced", what, 0, index)
\* ResourceBarrier with a transition of `resource` from `before` to `after`
ResourceBarrier(resource, before, after) == Cmd("ResourceBarrier", resource, before, after)
\* CopyTextureRegion into `dest`, whose size is destSize, from a source of srcSize
CopyTextureRegion(dest, destSize, srcSize) == Cmd("CopyTextureRegion", dest, destSize, srcSize)

\* The barriers every Draw records first and last.
BeginFrameBarrier(backBuffer) ==
    ResourceBarrier(CurrentBackBuffer(backBuffer), "PRESENT", "RENDER_TARGET")
EndFrameBarrier(backBuffer) ==
    ResourceBarrier(CurrentBackBuffer(backBuffer), "RENDER_TARGET", "PRESENT")

\* The per-item part of CrateApp::Draw's two blocks and of DrawRenderItems.
ItemCommands(ri, materials) ==
    << SetGraphicsRootDescriptorTable(0, "srv", materials[ri.Mat].DiffuseSrvHeapIndex),
       SetGraphicsRootConstantBufferView(1, "ObjectCB", ri.ObjCBIndex),
       SetGraphicsRootConstantBufferView(3, "MaterialCB", materials[ri.Mat].MatCBIndex),
       DrawIndexedInstanced("ritem", ri.ObjCBIndex) >>

\* A faulty flare block that binds the box's root signature.
CrateFlareRootSignatureDefault == "mRootSignature"

\* The root signature CrateApp::Draw binds for the flare box.
CrateFlareRootSignature == "mFlareRootSignature"

CrateBlock(ri, materials, pso, sig) ==
    << SetPipelineState(pso),
       SetGraphicsRootSignature(sig),
       SetGraphicsRootConstantBufferView(2, "PassCB", 0),
       SetGraphicsRootDescriptorTable(4, "sampler", 0) >> \o ItemCommands(ri, materials)

CrateDrawCommands(items, materials, opaque, backBuffer) ==
    << ResetCmd(NullPSO), BeginFrameBarrier(backBuffer) >>
    \o CrateBlock(items[1], materials,
                  IF opaque THEN "mOpaquePSO" ELSE "mWireFramePSO", "mRootSignature")
    \o CrateBlock(items[2], materials,
                  IF opaque THEN "mOpaqueFlarePSO" ELSE "mWireFrameFlarePSO",
                  CrateFlareRootSignature)
    \o << EndFrameBarrier(backBuffer) >>

\* The render layer each scene PSO name is used for.
LayerOfPso(psoName) ==
    CASE psoName = "opaque" -> "Opaque"
      [] psoName = "transparent" -> "Transparent"
      [] psoName = "alphaTested" -> "AlphaTested"
      [] OTHER -> "AnimatedBolt"

RECURSIVE DrawRenderItems(_, _, _)
DrawRenderItems(items, materials, layer) ==
    IF items = << >>
    THEN << >>
    ELSE (IF Head(items).Layer = layer THEN ItemCommands(Head(items), materials) ELSE << >>)
         \o DrawRenderItems(Tail(items), materials, layer)

\* A faulty Draw that ignores mDrawTransparentFirst.
BlendLayerOrderOpaqueFirst(transparentFirst) ==
    <<"opaque", "alphaTested", "transparent", "animatedBolt">>

\* The order in which BlendApp::Draw draws the layers.
BlendLayerOrder(transparentFirst) ==
    IF transparentFirst
    THEN <<"transparent", "animatedBolt", "opaque", "alphaTested">>
    ELSE <<"opaque", "alphaTested", "transparent", "animatedBolt">>

\* The PSO names a Draw of BlendApp passes to GetPsoForSceneRendering.
RequestedPSONames(transparentFirst) ==
    {BlendLayerOrder(transparentFirst)[i] :
        i \in 1 .. Len(BlendLayerOrder(transparentFirst))}

RECURSIVE BlendLayerCommands(_, _, _, _, _, _)
BlendLayerCommands(order, items, materials, mode, defaults, overdraw) ==
    IF order = << >>
    THEN << >>
    ELSE << SetPipelineState(GetPsoForSceneRendering(mode, defaults, overdraw, Head(order))) >>
         \o DrawRenderItems(items, materials, LayerOfPso(Head(order)))
         \o BlendLayerCommands(Tail(order), items, materials, mode, defaults, overdraw)

QuadCommands(overdraw, depthSize) ==
    << ResourceBarrier("mDepthStencilBuffer", "DEPTH_WRITE", "COPY_SOURCE"),
       ResourceBarrier("quadTexture", "PIXEL_SHADER_RESOURCE", "COPY_DEST"),
       CopyTextureRegion("quadTexture", overdraw.quadTexture, depthSize),
       ResourceBarrier("mDepthStencilBuffer", "COPY_SOURCE", "DEPTH_WRITE"),
       ResourceBarrier("quadTexture", "COPY_DEST", "PIXEL_SHADER_RESOURCE"),
       SetPipelineState(overdraw.quadPSO),
       SetGraphicsRootDescriptorTable(0, "srv", overdraw.srvOffsetInHeap),
       DrawIndexedInstanced("quad", 0) >>

BlendDrawCommands(items, materials, transparentFirst, mode, defaults, overdraw, backBuffer, depthSize) ==
    << ResetCmd(NullPSO),
       BeginFrameBarrier(backBuffer),
       SetGraphicsRootSignature("mRootSignature"),
       SetGraphicsRootConstantBufferView(2, "PassCB", 0) >>
    \o BlendLayerCommands(BlendLayerOrder(transparentFirst), items, materials, mode,
                          defaults, overdraw)
    \o (IF mode = "PixelOverdraw" THEN QuadCommands(overdraw, depthSize) ELSE << >>)
    \o << EndFrameBarrier(backBuffer) >>

BoxDrawCommands(a, backBuffer) ==
    << ResetCmd("mPSO"),
       BeginFrameBarrier(backBuffer),
       SetGraphicsRootSignature("mRootSignature"),
       SetGraphicsRootDescriptorTable(0, "cbv", 0),
       DrawIndexedInstanced("box", 0) >>
    \o (IF a = "BoxApp"
        THEN << SetGraphicsRootDescriptorTable(0, "cbv", 1),
                DrawIndexedInstanced("pyramid", 1) >>
        ELSE << >>)
    \o << EndFrameBarrier(backBuffer) >>

(***************************************************************************)
(* Resource states.                                                        *)
(***************************************************************************)
\* The states the resources are in after the GPU has executed cmds, having
\* started in `state`.
RECURSIVE ApplyBarriers(_, _)
ApplyBarriers(cmds, state) ==
    IF cmds = << >>
    THEN state
    ELSE ApplyBarriers(Tail(cmds),
                       IF Head(cmds).op = "ResourceBarrier" /\ Head(cmds).name \in DOMAIN state
                       THEN [state EXCEPT ![Head(cmds).name] = Head(cmds).base]
                       ELSE state)

(***************************************************************************)
(* BlendApp::CreateResourcesForPixelOverdrawMode, called by Draw.          *)
(***************************************************************************)
QuadSrvOffset == 3 + AnimTexturesCount

\* A faulty version without the early return: it creates on every call.
CreateResourcesForPixelOverdrawModeAlways(overdraw, size) ==
    [null |-> FALSE, quadPSO |-> "quadPSO",
     mPixelOverdrawPSOs |-> BuildPSOsForSceneRendering("PixelOverdraw"),
     quadTexture |-> size, srvOffsetInHeap |-> QuadSrvOffset]

CreateResourcesForPixelOverdrawMode(overdraw, size) ==
    IF ~overdraw.null
    THEN overdraw
    ELSE [null |-> FALSE, quadPSO |-> "quadPSO",
          mPixelOverdrawPSOs |-> BuildPSOsForSceneRendering("PixelOverdraw"),
          quadTexture |-> size, srvOffsetInHeap |-> QuadSrvOffset]

OverdrawPSOs ==
    [p \in {"PixelOverdraw." \o n : n \in SceneLayerPSONames} \cup {"quadPSO"} |->
        "mRootSignature"]

OverdrawCreates(during) ==
    {Creation("resource", n, 0, during) : n \in {"quadGeo", "quadTexture"}} \cup
    {Creation("pso", p, 0, during) : p \in DOMAIN OverdrawPSOs} \cup
    {Creation("descriptor", "srv", QuadSrvOffset, during)}

\* Whether this Draw creates the overdraw resources.
CreatesOverdraw(a, mode, overdraw) ==
    a = "BlendApp" /\ mode = "PixelOverdraw" /\ overdraw.null

\* The places where a Draw of BlendApp dereferences mPixelOverdrawResources:
\* GetPsoForSceneRendering and the block of Draw that draws the quad, both
\* under mRenderMode == PixelOverdraw.  Each is logged with the mode and with
\* whether the pointer was null.
OverdrawDereferences(a, mode, overdraw) ==
    IF a = "BlendApp" /\ mode = "PixelOverdraw"
    THEN {[site |-> s, mode |-> mode, null |-> overdraw.null] :
             s \in {"GetPsoForSceneRendering", "Draw"}}
    ELSE {}

\* Draw, up to Close: reset the allocator and the command list, record.
DrawRecord ==
    /\ pc = "draw"
    /\ LET creates == CreatesOverdraw(app, mRenderMode, mPixelOverdrawResources)
           overdraw == IF app = "BlendApp" /\ mRenderMode = "PixelOverdraw"
                       THEN CreateResourcesForPixelOverdrawMode(mPixelOverdrawResources,
                                                                mClientSize)
                       ELSE mPixelOverdrawResources
           requested == RequestedPSONames(mDrawTransparentFirst)
       IN /\ mPixelOverdrawResources' =
                IF app = "BlendApp" /\ mRenderMode = "PixelOverdraw"
                THEN [overdraw EXCEPT
                        !.mPixelOverdrawPSOs = MapAfterLookups(@, requested)]
                ELSE overdraw
          /\ mDefaultPSOs' =
                IF app = "BlendApp" /\ mRenderMode # "PixelOverdraw"
                THEN MapAfterLookups(mDefaultPSOs, requested)
                ELSE mDefaultPSOs
          /\ overdrawDerefs' = overdrawDerefs \cup
                                  OverdrawDereferences(app, mRenderMode, overdraw)
          /\ psoRootSig' = IF creates THEN OverdrawPSOs @@ psoRootSig ELSE psoRootSig
          /\ heaps' = IF creates
                      THEN [heaps EXCEPT !["srv"].written = @ \cup {QuadSrvOffset}]
                      ELSE heaps
          /\ created' = IF creates THEN created \cup OverdrawCreates("Draw") ELSE created
          /\ mCommandList' =
                CASE app = "CrateApp" ->
                       CrateDrawCommands(mAllRitems, mMaterials, mOpaqueDraw, mCurrBackBuffer)
                  [] app = "BlendApp" ->
                       BlendDrawCommands(mAllRitems, mMaterials, mDrawTransparentFirst,
                                         mRenderMode, mDefaultPSOs, overdraw,
                                         mCurrBackBuffer, mClientSize)
                  [] OTHER -> BoxDrawCommands(app, mCurrBackBuffer)
          /\ resourceState' = IF creates
                              THEN ("quadTexture" :> QuadTextureInitialState) @@ resourceState
                              ELSE resourceState
    /\ frameLog' = frameLog \o DrawRecordCalls
    /\ pc' = "submit"
    /\ UNCHANGED <<app, mBoxGeo, inFlightAtDestroy, keyLog, updatesUnmodified, cbWriteLog, frameResourceHistory, cameraVars, mTimer, flushFrom, numEvents, syncVars, initLog, waited, sceneVars, inputVars,
                   samplerDesc>>

\* Draw, from ExecuteCommandLists on.  CrateApp and BlendApp advance the fence,
\* store it in the current frame resource and signal it; BoxApp flushes.
DrawSubmit ==
    /\ pc = "submit"
    /\ frameLog' = frameLog \o DrawSubmitCalls(app)
    /\ resourceState' = ApplyBarriers(mCommandList, resourceState)
    /\ mCurrBackBuffer' = (mCurrBackBuffer + 1) % SwapChainBufferCount
    /\ IF app \in FrameResourceApps
       THEN /\ mCurrentFence' = AdvanceFence(mCurrentFence)
            /\ frFence' = [frFence EXCEPT ![mCurrFrameResource] = mCurrentFence']
            /\ cmdQueue' = Signal(ExecuteCommandLists(cmdQueue, mCurrFrameResource),
                                  mCurrentFence')
            /\ lastSignal' = mCurrentFence'
            /\ pc' = "idle"
            /\ UNCHANGED flushFrom
       ELSE /\ FlushBegin(ExecuteCommandLists(cmdQueue, NullFR), "Draw")
            /\ lastSignal' = mCurrentFence'
            /\ UNCHANGED frFence
    /\ submittedFrames' = submittedFrames \cup {mCurrentFence'}
    /\ UNCHANGED <<app, mBoxGeo, inFlightAtDestroy, overdrawDerefs, keyLog, updatesUnmodified, cbWriteLog, frameResourceHistory, cameraVars, mTimer, numEvents, mCurrFrameResourceIndex, mCurrFrameResource,
                   fenceCompleted, initLog, waited, sceneVars, inputVars, gpuObjVars>>

\* BoxApp::Update: the constant buffers are written in place.
BoxUpdate(dt) ==
    /\ pc = "idle"
    /\ app \in BoxApps
    /\ mCurrentFence < MaxFence
    /\ mTimer.TotalTime + dt <= MaxTime
    /\ mTimer' = Tick(mTimer, dt)
    /\ mObjectCB' = IF app = "BoxApp"
                    THEN CopyData(CopyData(mObjectCB, 0, mTimer'.TotalTime), 1,
                                  mTimer'.TotalTime)
                    ELSE CopyData(mObjectCB, 0, mTimer'.TotalTime)
    /\ mGlobalCB' = IF app = "BoxApp2" THEN mTimer'.TotalTime ELSE mGlobalCB
    /\ frameLog' = <<"Update">>
    /\ pc' = "draw"
    /\ UNCHANGED <<app, mBoxGeo, inFlightAtDestroy, overdrawDerefs, keyLog, updatesUnmodified, cbWriteLog, resourceState, frameResourceHistory, cameraVars, flushFrom, numEvents, syncVars, initLog, waited, mAllRitems, mMaterials,
                   frCounts, frObjectCB, frMaterialCB, frPassCB, frWavesVB,
                   mBoltAnimSrvOffsetInHeap, lastUpdatedTime, inputVars, gpuObjVars>>

Next ==
    \/ Initialize
    \/ FlushWait
    \/ GpuExecute
    \/ \E k \in CrateKeys : CrateOnKeyDown(k)
    \/ \E k \in BlendKeys : BlendOnKeyDown(k)
    \/ \E size \in Sizes : OnResize(size)
    \/ Destroy
    \/ \E dt \in DeltaTimes : UpdateBegin(dt)
    \/ FenceWait
    \/ CrateUpdateCBs
    \/ BlendUpdateCBs
    \/ \E dt \in DeltaTimes : BoxUpdate(dt)
    \/ DrawRecord
    \/ DrawSubmit

Spec == Init /\ [][Next]_vars

\* The program while only mouse messages arrive.
MouseNext ==
    \/ Initialize
    \/ FlushWait
    \/ GpuExecute
    \/ \E pos \in MousePositions : OnMouseDown(pos)
    \/ \E pos \in MousePositions : OnMouseUp(pos)
    \/ \E btnState \in MouseButtons, pos \in MousePositions : OnMouseMove(btnState, pos)

MouseSpec == Init /\ [][MouseNext]_vars

\* The GPU eventually executes every command on the queue, and a wait
\* returns once its fence value is reached.
FairSpec == Spec /\ WF_vars(GpuExecute) /\ WF_vars(FenceWait) /\ WF_vars(FlushWait)

(***************************************************************************)
(* Properties.                                                             *)
(***************************************************************************)
\* The CPU is about to write the current frame resource's buffers (pc =
\* "updateCBs") or to reset its command allocator (pc = "draw").
CpuUsesFrameResource ==
    app \in FrameResourceApps /\ pc \in {"updateCBs", "draw"}

\* The command lists submitted with frame resource fr that the GPU has not
\* executed yet.
PendingListsOf(fr) ==
    {i \in DOMAIN cmdQueue : cmdQueue[i].type = "exec" /\ cmdQueue[i].fr = fr}

\* C1: whenever the CPU writes the current frame resource's buffers or resets
\* its command allocator, the fence's completed value has reached that frame
\* resource's Fence, and the GPU has executed every command list submitted
\* with that frame resource.
C1_FrameResourceNotInUse ==
    CpuUsesFrameResource =>
        /\ fenceCompleted >= frFence[mCurrFrameResource]
        /\ PendingListsOf(mCurrFrameResource) = {}

\* C1, its case: the CPU writes a frame resource it had to wait for, while the
\* GPU still has work of other frames on the queue.
C1_Witness ==
    /\ CpuUsesFrameResource
    /\ waited
    /\ frFence[mCurrFrameResource] > 0
    /\ cmdQueue # << >>

\* The frames Draw has submitted that the GPU has not reached.
FramesInFlight == {f \in submittedFrames : f > fenceCompleted}

\* C2: the number of frames submitted but not yet reached by the GPU never
\* exceeds gNumFrameResources.
C2_BoundedFramesInFlight ==
    Cardinality(FramesInFlight) <= gNumFrameResources

\* C2, its case: gNumFrameResources frames are in flight at once.
C2_Witness ==
    /\ app \in FrameResourceApps
    /\ Cardinality(FramesInFlight) = gNumFrameResources

\* A step of Draw's submission in CrateApp and BlendApp.
FrameSubmitted ==
    app \in FrameResourceApps /\ pc = "submit" /\ pc' = "idle"

\* C3: each Draw increases mCurrentFence by exactly one, stores the new value
\* in the current frame resource's Fence and passes the same value to Signal;
\* the fence's completed value never decreases and never exceeds mCurrentFence.
C3_FenceMonotone ==
    /\ [](fenceCompleted <= mCurrentFence)
    /\ [][/\ fenceCompleted' >= fenceCompleted
          /\ FrameSubmitted =>
                /\ mCurrentFence' = mCurrentFence + 1
                /\ frFence'[mCurrFrameResource] = mCurrentFence'
                /\ cmdQueue'[Len(cmdQueue')] = SignalEntry(frFence'[mCurrFrameResource])]_vars

\* C3, its case: a Draw has stored its fence value and the GPU has not reached
\* it, after the GPU completed earlier frames.
C3_Witness ==
    /\ app \in FrameResourceApps
    /\ pc = "idle"
    /\ mCurrFrameResource # NullFR
    /\ frFence[mCurrFrameResource] = mCurrentFence
    /\ fenceCompleted >= 2
    /\ fenceCompleted < mCurrentFence

\* The Signal of the fence value the current frame resource waits for is on
\* the queue.
SignalEnqueued ==
    \E i \in DOMAIN cmdQueue : cmdQueue[i] = SignalEntry(frFence[mCurrFrameResource])

\* C4: the fence wait of Update always terminates: while the CPU waits, the
\* Signal it waits for is already on the queue or already executed, and, the
\* GPU executing every command eventually, the wait returns.
C4_FenceWaitTerminates ==
    /\ [](pc = "fenceWait" =>
            (SignalEnqueued \/ fenceCompleted >= frFence[mCurrFrameResource]))
    /\ (pc = "fenceWait") ~> (pc = "updateCBs" /\ waited)

\* C4, its case: an Update that waited for the fence and went on.
C4_Witness ==
    /\ pc = "updateCBs"
    /\ waited
    /\ fenceCompleted >= frFence[mCurrFrameResource]

IsPrefix(s, t) == Len(s) <= Len(t) /\ \A i \in 1 .. Len(s) : s[i] = t[i]

\* C5: Initialize resets the command list, records, closes, executes and
\* flushes before it returns true; each frame runs Update and then Draw; Draw
\* resets the allocator and the command list, records, closes, executes,
\* presents and then signals the fence (CrateApp, BlendApp) or flushes the
\* queue (BoxApp); no frame starts before Initialize has returned, no Draw
\* runs without the Update before it, and on the queue the Signal of a frame
\* directly follows the frame's command list.
C5_CallOrder ==
    /\ IsPrefix(initLog, <<"CommandListReset", "Record", "Close", "ExecuteCommandLists",
                           "FlushCommandQueue", "return true">>)
    /\ IsPrefix(frameLog,
                IF app \in FrameResourceApps
                THEN <<"Update", "AllocatorReset", "CommandListReset", "Record", "Close",
                       "ExecuteCommandLists", "Present", "Signal">>
                ELSE <<"Update", "AllocatorReset", "CommandListReset", "Record", "Close",
                       "ExecuteCommandLists", "Present", "FlushCommandQueue">>)
    /\ (frameLog # << >> => Len(initLog) = 6)
    /\ (pc \in {"draw", "submit"} => frameLog # << >> /\ frameLog[1] = "Update")
    /\ \A i \in DOMAIN cmdQueue :
          (i > 1 /\ cmdQueue[i].type = "signal" /\ cmdQueue[i].value \in submittedFrames)
             => cmdQueue[i - 1].type = "exec"

\* C5, its case: a frame of CrateApp has run to the end of Draw.
C5_Witness ==
    /\ app = "CrateApp"
    /\ pc = "idle"
    /\ Len(frameLog) = 8
    /\ frameLog[8] = "Signal"

\* C6: when Draw runs, the current frame resource's constant-buffer entry of
\* every render item holds the item's current World and TexTransform, and the
\* entry of every material holds the material's current constants (each matrix
\* stored transposed, as the shaders read it).
C6_ConstantBuffersCurrent ==
    (app \in FrameResourceApps /\ pc \in {"draw", "submit"}) =>
        /\ \A i \in DOMAIN mAllRitems :
              /\ mAllRitems[i].ObjCBIndex \in DOMAIN frObjectCB[mCurrFrameResource]
              /\ frObjectCB[mCurrFrameResource][mAllRitems[i].ObjCBIndex] =
                    [World |-> XMMatrixTranspose(mAllRitems[i].World),
                     TexTransform |-> XMMatrixTranspose(mAllRitems[i].TexTransform)]
        /\ \A n \in DOMAIN mMaterials :
              /\ mMaterials[n].MatCBIndex \in DOMAIN frMaterialCB[mCurrFrameResource]
              /\ frMaterialCB[mCurrFrameResource][mMaterials[n].MatCBIndex] =
                    [Props |-> n,
                     MatTransform |-> XMMatrixTranspose(mMaterials[n].MatTransform)]

\* C6, its case: a key scaled the texture transform of CrateApp's box, and
\* Draw runs after every frame resource has received the new value.
C6_Witness ==
    /\ app = "CrateApp"
    /\ pc = "draw"
    /\ mAllRitems[1].TexTransform.kind = "scale"
    /\ mAllRitems[1].NumFramesDirty = 0

\* C7: every render item's ObjCBIndex is below the number of render items and
\* every material's MatCBIndex is below the number of materials, the indices
\* are unique, and the frame resources' buffers have one element per index.
C7_ConstantBufferIndices ==
    (app \in FrameResourceApps /\ DeviceExists(pc)) =>
        /\ \A i \in DOMAIN mAllRitems :
              /\ mAllRitems[i].ObjCBIndex >= 0
              /\ mAllRitems[i].ObjCBIndex < Len(mAllRitems)
              /\ mAllRitems[i].ObjCBIndex < frCounts.objectCount
        /\ \A i, j \in DOMAIN mAllRitems :
              i # j => mAllRitems[i].ObjCBIndex # mAllRitems[j].ObjCBIndex
        /\ \A n \in DOMAIN mMaterials :
              /\ mMaterials[n].MatCBIndex >= 0
              /\ mMaterials[n].MatCBIndex < Cardinality(DOMAIN mMaterials)
              /\ mMaterials[n].MatCBIndex < frCounts.materialCount
        /\ \A n, m \in DOMAIN mMaterials :
              n # m => mMaterials[n].MatCBIndex # mMaterials[m].MatCBIndex

\* C7, its case: BlendApp draws its four render items and four materials.
C7_Witness ==
    /\ app = "BlendApp"
    /\ pc = "submit"
    /\ Len(mAllRitems) = 4
    /\ Cardinality(DOMAIN mMaterials) = 4
    /\ frCounts.objectCount = 4

\* The name of the last command before position i whose op is in ops, or "".
LastBefore(cmds, i, ops) ==
    LET js == {j \in 1 .. (i - 1) : cmds[j].op \in ops}
    IN IF js = {} THEN ""
       ELSE cmds[CHOOSE j \in js : \A k \in js : k <= j].name

BoundRootSignature(cmds, i) == LastBefore(cmds, i, {"SetGraphicsRootSignature"})
BoundPSO(cmds, i) == LastBefore(cmds, i, {"Reset", "SetPipelineState"})

C10_DrawsHavePsoAndRootSignature ==
    \A i \in DOMAIN mCommandList :
        mCommandList[i].op = "DrawIndexedInstanced" =>
            LET pso == BoundPSO(mCommandList, i)
                sig == BoundRootSignature(mCommandList, i)
            IN /\ pso # NullPSO
               /\ pso \in DOMAIN psoRootSig
               /\ sig # ""
               /\ psoRootSig[pso] = sig

\* C10, its case: CrateApp has recorded its two draws in wireframe mode, the
\* flare box's under the flare root signature.
C10_Witness ==
    /\ app = "CrateApp"
    /\ pc = "submit"
    /\ ~mOpaqueDraw
    /\ \E i \in DOMAIN mCommandList :
          /\ mCommandList[i].op = "DrawIndexedInstanced"
          /\ BoundPSO(mCommandList, i) = "mWireFrameFlarePSO"
          /\ BoundRootSignature(mCommandList, i) = "mFlareRootSignature"

\* C11: in BoxApp, whenever Update is about to write the constant buffers
\* (the CPU is between two frames) and whenever Draw resets the command
\* allocator and records, the GPU has no submitted work outstanding: the
\* command queue is empty and the fence has reached mCurrentFence.
C11_BoxNoOutstandingWork ==
    (app \in BoxApps /\ pc \in {"idle", "draw", "submit"}) =>
        /\ cmdQueue = << >>
        /\ fenceCompleted = mCurrentFence

\* C11, its case: BoxApp's Draw resets the allocator after an earlier Draw
\* submitted a command list and flushed.
C11_Witness ==
    /\ app \in BoxApps
    /\ pc = "draw"
    /\ mCurrentFence >= 2
    /\ submittedFrames # {}
    /\ cmdQueue = << >>

\* C12: after any sequence of mouse messages mPhi lies in [0.1, Pi - 0.1] and
\* mRadius lies in [3, 15] in BoxApp and in [5, 150] in CrateApp and BlendApp;
\* the initial values lie in these ranges.
C12_CameraRestricted ==
    /\ mPhi >= 22918
    /\ mPhi <= 720000 - 22918
    /\ IF app \in BoxApps
       THEN mRadius >= 3 * 200 /\ mRadius <= 15 * 200
       ELSE mRadius >= 5 * 200 /\ mRadius <= 150 * 200

\* C12, its case: mouse moves have driven the angle of BlendApp to its lower
\* limit and the radius to its upper limit.
C12_Witness ==
    /\ app = "BlendApp"
    /\ numEvents = 2
    /\ mPhi = PhiMin
    /\ mRadius = 150 * 200

\* A step that begins an Update of CrateApp or BlendApp.
UpdateStarts ==
    app \in FrameResourceApps /\ pc = "idle" /\ pc' \in {"fenceWait", "updateCBs"}

\* C13: mCurrFrameResourceIndex stays in 0..gNumFrameResources-1; each Update
\* advances it by one modulo gNumFrameResources, the first frame using index
\* 1; once an Update has run, mCurrFrameResource is the frame resource at that
\* index; and no frame resource is used by two of three consecutive frames.
C13_FrameResourceCycle ==
    /\ [](/\ mCurrFrameResourceIndex \in 0 .. 2
          /\ (frameLog # << >> /\ app \in FrameResourceApps) =>
                mCurrFrameResource = mCurrFrameResourceIndex
          /\ (frameResourceHistory # << >>) => frameResourceHistory[1] \in {0, 1, 2}
          /\ (Len(frameResourceHistory) = 1) => frameResourceHistory[1] = 1
          /\ \A i, j \in DOMAIN frameResourceHistory :
                i # j => frameResourceHistory[i] # frameResourceHistory[j])
    /\ [][UpdateStarts =>
            /\ mCurrFrameResourceIndex' = (mCurrFrameResourceIndex + 1) % 3
            /\ frameResourceHistory'[Len(frameResourceHistory')] = mCurrFrameResourceIndex'
            /\ Len(frameResourceHistory') = IF Len(frameResourceHistory) < 3
                                            THEN Len(frameResourceHistory) + 1
                                            ELSE 3]_vars

\* C13, its case: the fourth frame comes back to the frame resource of the
\* first, index 1, after frames on 2 and 0.
C13_Witness ==
    /\ app \in FrameResourceApps
    /\ pc = "draw"
    /\ Cardinality(submittedFrames) = 3
    /\ frameResourceHistory = <<2, 0, 1>>

\* C14: Update waits for the fence exactly when the frame resource it is about
\* to reuse has a nonzero Fence that the GPU's completed value has not
\* reached; so none of the first gNumFrameResources frames waits, and a frame
\* whose frame resource the GPU has finished with does not wait.
C14_WaitsOnlyWhenNeeded ==
    /\ []((pc = "fenceWait" \/ waited) =>
            /\ frFence[mCurrFrameResource] # 0
            /\ Cardinality(submittedFrames) >= 3)
    /\ [][UpdateStarts =>
            (pc' = "fenceWait" <=>
                (/\ frFence[mCurrFrameResourceIndex'] # 0
                 /\ fenceCompleted < frFence[mCurrFrameResourceIndex']))]_vars

\* C14, its case: an Update reuses a frame resource without waiting, the GPU
\* having reached that frame resource's fence already.
C14_Witness ==
    /\ app \in FrameResourceApps
    /\ pc = "updateCBs"
    /\ ~waited
    /\ frFence[mCurrFrameResource] # 0
    /\ fenceCompleted >= frFence[mCurrFrameResource]
    /\ fenceCompleted < mCurrentFence

\* Whether every ResourceBarrier of cmds names as its before-state the state
\* its resource is in at that point of the stream, which starts in `state`.
BarriersConsistent(cmds, state) ==
    \A i \in DOMAIN cmds :
        cmds[i].op = "ResourceBarrier" =>
            LET now == ApplyBarriers(SubSeq(cmds, 1, i - 1), state)
            IN /\ cmds[i].name \in DOMAIN now
               /\ now[cmds[i].name] = cmds[i].slot

C16_DirtyCounters ==
    (app \in FrameResourceApps /\ DeviceExists(pc)) =>
        /\ \A i \in DOMAIN mAllRitems :
              /\ mAllRitems[i].NumFramesDirty \in 0 .. 3
              /\ updatesUnmodified.obj[i] >= 3 => mAllRitems[i].NumFramesDirty = 0
              /\ pc \in {"draw", "submit"} =>
                    IF cbWriteLog.objSeen[i] > 0
                    THEN /\ cbWriteLog.objWrites[i] = 1
                         /\ mAllRitems[i].NumFramesDirty = cbWriteLog.objSeen[i] - 1
                    ELSE /\ cbWriteLog.objWrites[i] = 0
                         /\ mAllRitems[i].NumFramesDirty = 0
        /\ \A n \in DOMAIN mMaterials :
              /\ mMaterials[n].NumFramesDirty \in 0 .. 3
              /\ updatesUnmodified.mat[n] >= 3 => mMaterials[n].NumFramesDirty = 0
              /\ pc \in {"draw", "submit"} =>
                    IF cbWriteLog.matSeen[n] > 0
                    THEN /\ cbWriteLog.matWrites[n] = 1
                         /\ mMaterials[n].NumFramesDirty = cbWriteLog.matSeen[n] - 1
                    ELSE /\ cbWriteLog.matWrites[n] = 0
                         /\ mMaterials[n].NumFramesDirty = 0

\* C16, its case: the fourth Update of CrateApp finds the first box's counter
\* at 0 and does not write it, while it writes the animated second box.
C16_Witness ==
    /\ app = "CrateApp"
    /\ pc = "draw"
    /\ cbWriteLog.objSeen[1] = 0
    /\ cbWriteLog.objWrites[1] = 0
    /\ cbWriteLog.objSeen[2] = 3
    /\ cbWriteLog.objWrites[2] = 1
    /\ updatesUnmodified.obj[1] = 3

\* The positions in the recorded command list at which an item of the layer
\* is drawn.
LayerDrawPositions(layer) ==
    {i \in DOMAIN mCommandList :
        /\ mCommandList[i].op = "DrawIndexedInstanced"
        /\ mCommandList[i].name = "ritem"
        /\ \E k \in DOMAIN mAllRitems :
              /\ mAllRitems[k].ObjCBIndex = mCommandList[i].base
              /\ mAllRitems[k].Layer = layer}

LayerDrawPosition(layer) == CHOOSE i \in LayerDrawPositions(layer) : TRUE

\* The layer is drawn once, and the last pipeline state bound before its draw
\* is the one of the given name, with no other draw in between.
LayerDrawnOnceWithPso(layer, psoName) ==
    /\ Cardinality(LayerDrawPositions(layer)) = 1
    /\ LET i == LayerDrawPosition(layer)
           binds == {j \in 1 .. (i - 1) :
                       /\ mCommandList[j].op = "SetPipelineState"
                       /\ mCommandList[j].name = mRenderMode \o "." \o psoName}
       IN /\ binds # {}
          /\ BoundPSO(mCommandList, i) = mRenderMode \o "." \o psoName
          /\ \A j \in binds : \A m \in j .. (i - 1) :
                mCommandList[m].op # "DrawIndexedInstanced"

\* C17: every Draw of BlendApp draws each of the four render layers once,
\* each after binding the pipeline state of the same name; Transparent and
\* then AnimatedBolt come before Opaque and AlphaTested exactly when
\* mDrawTransparentFirst is set, and after them otherwise; key '1' toggles
\* mDrawTransparentFirst, no other key changes it, and two presses restore it.
C17_LayerOrder ==
    /\ []((app = "BlendApp" /\ pc = "submit") =>
            /\ LayerDrawnOnceWithPso("Opaque", "opaque")
            /\ LayerDrawnOnceWithPso("AlphaTested", "alphaTested")
            /\ LayerDrawnOnceWithPso("Transparent", "transparent")
            /\ LayerDrawnOnceWithPso("AnimatedBolt", "animatedBolt")
            /\ LayerDrawPosition("Opaque") < LayerDrawPosition("AlphaTested")
            /\ LayerDrawPosition("Transparent") < LayerDrawPosition("AnimatedBolt")
            /\ IF mDrawTransparentFirst
               THEN LayerDrawPosition("AnimatedBolt") < LayerDrawPosition("Opaque")
               ELSE LayerDrawPosition("AlphaTested") < LayerDrawPosition("Transparent"))
    /\ [](keyLog = <<"1", "1">> => ~mDrawTransparentFirst)
    /\ [][keyLog' # keyLog =>
            IF keyLog'[Len(keyLog')] = "1"
            THEN mDrawTransparentFirst' = ~mDrawTransparentFirst
            ELSE mDrawTransparentFirst' = mDrawTransparentFirst]_vars

\* C17, its case: a Draw recorded after two presses of '1', with the opaque
\* layers first again.
C17_Witness ==
    /\ app = "BlendApp"
    /\ pc = "submit"
    /\ keyLog = <<"1", "1">>
    /\ Cardinality(submittedFrames) >= 1
    /\ LayerDrawPosition("AlphaTested") < LayerDrawPosition("Transparent")

\* C18: BlendApp creates the pixel-overdraw resources at most once: the
\* pointer changes only from null to non-null, in a Draw in PixelOverdraw
\* mode, a further call of CreateResourcesForPixelOverdrawMode changes
\* nothing, and what Draw has created for them it creates once; every
\* dereference of the pointer by Draw and GetPsoForSceneRendering happens in
\* PixelOverdraw mode with the pointer non-null.
C18_OverdrawCreatedOnce ==
    /\ [](\A d \in overdrawDerefs : d.mode = "PixelOverdraw" /\ ~d.null)
    /\ [](overdrawDerefs # {} => ~mPixelOverdrawResources.null)
    /\ [](~mPixelOverdrawResources.null =>
            \A s \in Sizes :
                CreateResourcesForPixelOverdrawMode(mPixelOverdrawResources, s)
                    = mPixelOverdrawResources)
    /\ [][mPixelOverdrawResources' # mPixelOverdrawResources =>
            /\ mPixelOverdrawResources.null
            /\ ~mPixelOverdrawResources'.null
            /\ app = "BlendApp"
            /\ pc = "draw"
            /\ mRenderMode = "PixelOverdraw"]_vars
    /\ [][~mPixelOverdrawResources.null =>
            /\ created' = created
            /\ psoRootSig' = psoRootSig
            /\ heaps' = heaps]_vars

\* C18, its case: a second Draw in PixelOverdraw mode, after the window
\* was resized, records its commands with the resources of the first.
C18_Witness ==
    /\ app = "BlendApp"
    /\ pc = "submit"
    /\ mRenderMode = "PixelOverdraw"
    /\ Len(frameResourceHistory) >= 2
    /\ ~mPixelOverdrawResources.null
    /\ mPixelOverdrawResources.quadTexture # mClientSize
    /\ \E d \in overdrawDerefs : d.site = "Draw"

\* The map GetPsoForSceneRendering looks into in the current render mode.
CurrentScenePSOs ==
    IF mRenderMode = "PixelOverdraw"
    THEN mPixelOverdrawResources.mPixelOverdrawPSOs
    ELSE mDefaultPSOs

\* C19: when a Draw of BlendApp has recorded its commands, every PSO name it
\* requested (opaque, transparent, alphaTested, animatedBolt) is in the map
\* of the current render mode with a non-null PSO, the pipeline states it
\* bound are those and none is null, and the lookups have inserted nothing:
\* a map, once built, never changes.
C19_RequestedPSOsPresent ==
    /\ []((app = "BlendApp" /\ pc = "submit") =>
            /\ RequestedPSONames(mDrawTransparentFirst) = SceneLayerPSONames
            /\ DOMAIN CurrentScenePSOs = SceneLayerPSONames
            /\ \A n \in SceneLayerPSONames :
                  /\ CurrentScenePSOs[n] # NullPSO
                  /\ \E i \in DOMAIN mCommandList :
                        /\ mCommandList[i].op = "SetPipelineState"
                        /\ mCommandList[i].name = CurrentScenePSOs[n]
            /\ \A i \in DOMAIN mCommandList :
                  mCommandList[i].op = "SetPipelineState" =>
                      mCommandList[i].name # NullPSO)
    /\ [][(app = "BlendApp" /\ pc = "draw") =>
            /\ mRenderMode # "PixelOverdraw" => mDefaultPSOs' = mDefaultPSOs
            /\ (mRenderMode = "PixelOverdraw" /\ ~mPixelOverdrawResources.null) =>
                  mPixelOverdrawResources' = mPixelOverdrawResources
            /\ DOMAIN mDefaultPSOs' = SceneLayerPSONames
            /\ ~mPixelOverdrawResources'.null =>
                  DOMAIN mPixelOverdrawResources'.mPixelOverdrawPSOs = SceneLayerPSONames]_vars

\* C19, its case: Draws in both render modes have looked their PSOs up.
C19_Witness ==
    /\ app = "BlendApp"
    /\ pc = "submit"
    /\ mRenderMode = "Normal"
    /\ ~mPixelOverdrawResources.null
    /\ \E i \in DOMAIN mCommandList :
          /\ mCommandList[i].op = "SetPipelineState"
          /\ mCommandList[i].name = "Normal.animatedBolt"

\* C20: at every Draw of BlendApp in PixelOverdraw mode the overdraw texture
\* that receives the stencil copy has the size of the current depth/stencil
\* buffer, mClientWidth x mClientHeight of that frame.
C20_OverdrawTextureMatchesDepthBuffer ==
    (app = "BlendApp" /\ pc = "submit" /\ mRenderMode = "PixelOverdraw") =>
        /\ mPixelOverdrawResources.quadTexture = mClientSize
        /\ \A i \in DOMAIN mCommandList :
              mCommandList[i].op = "CopyTextureRegion" =>
                  mCommandList[i].slot = mCommandList[i].base

\* C20, its case: a Draw in PixelOverdraw mode copies the stencil into the
\* overdraw texture.
C20_Witness ==
    /\ app = "BlendApp"
    /\ pc = "submit"
    /\ mRenderMode = "PixelOverdraw"
    /\ numEvents = MaxBlendEvents
    /\ \E i \in DOMAIN mCommandList :
          /\ mCommandList[i].op = "CopyTextureRegion"
          /\ mCommandList[i].name = "quadTexture"
          /\ mCommandList[i].base = mClientSize

DrawnSubmeshes ==
    {mCommandList[i].name : i \in {j \in DOMAIN mCommandList :
                                     mCommandList[j].op = "DrawIndexedInstanced"}}

\* C22: in the two-object BoxApp the box submesh covers the indices [0, 36)
\* with base vertex 0 and the pyramid [36, 54) with base vertex 8; the two
\* ranges do not overlap and together cover all 54 indices; every index of a
\* submesh plus its BaseVertexLocation is a vertex of the buffer (below 13)
\* that belongs to the submesh's shape (0..7 the box, 8..12 the pyramid); and
\* Draw draws exactly these two submeshes.
C22_SubmeshesPartitionBuffers ==
    (app = "BoxApp" /\ DeviceExists(pc)) =>
        LET box == mBoxGeo.DrawArgs["box"]
            pyramid == mBoxGeo.DrawArgs["pyramid"]
        IN /\ DOMAIN mBoxGeo.DrawArgs = {"box", "pyramid"}
           /\ IndexRange(box) = 0 .. 35 /\ box.BaseVertexLocation = 0
           /\ IndexRange(pyramid) = 36 .. 53 /\ pyramid.BaseVertexLocation = 8
           /\ IndexRange(box) \cap IndexRange(pyramid) = {}
           /\ IndexRange(box) \cup IndexRange(pyramid) = 0 .. (Len(mBoxGeo.indices) - 1)
           /\ Len(mBoxGeo.indices) = 54
           /\ Len(mBoxGeo.vertices) = 13
           /\ \A n \in {"box", "pyramid"} : \A k \in IndexRange(mBoxGeo.DrawArgs[n]) :
                 LET v == FetchedVertex(mBoxGeo, mBoxGeo.DrawArgs[n], k)
                 IN /\ v \in 0 .. (Len(mBoxGeo.vertices) - 1)
                    /\ mBoxGeo.vertices[v + 1] = n
                    /\ v \in (IF n = "box" THEN 0 .. 7 ELSE 8 .. 12)
           /\ pc = "submit" => DrawnSubmeshes = {"box", "pyramid"}

\* C22, its case: a Draw of the two-object BoxApp has recorded the draw of
\* the pyramid, whose last index fetches the apex, vertex 12.
C22_Witness ==
    /\ app = "BoxApp"
    /\ pc = "submit"
    /\ "pyramid" \in DrawnSubmeshes
    /\ \E k \in IndexRange(mBoxGeo.DrawArgs["pyramid"]) :
          FetchedVertex(mBoxGeo, mBoxGeo.DrawArgs["pyramid"], k) = 12

====
